---- MODULE Spec2Model ----
(***************************************************************************)
(* Model of the symptom-assessment service of medibot-main.                *)
(*                                                                         *)
(* Two application variants exist in the repository:                       *)
(*   "combined" : app.py                      (chat + symptom checker)     *)
(*   "checker"  : full_symptom_checker_app.py (symptom checker only)       *)
(* A deployment runs one of them; `app` records which.  Python strings are *)
(* TLA+ strings; a JSON answer value is a record [kind, val, items] whose   *)
(* val is the Python str() rendering of the value and whose items are the  *)
(* elements of a list.                                                     *)
(***************************************************************************)
EXTENDS Integers, Sequences, FiniteSets, TLC

VARIABLES
    app,        \* which variant is deployed: "combined" or "checker"
    session,    \* the Flask session of the client modelled
    peer,       \* the Flask session of a second client
    inflight,   \* the overlapping requests of the client: each holds the
                \* session it loaded, until it saves
    request,    \* the request being served (message in flight)
    response,   \* the JSON response of the last request
    progress,   \* history: in-order emergency-free submissions since start()
    aborted,    \* history: an emergency verdict was returned since start()/reset
    calls,      \* the collaborator calls the last request made, in order
    summary,    \* the patient summary the last request built ("" when none)
    transcript, \* history: every chat turn since the last clear, oldest first
    text,       \* screener harness: the text handed to check_emergency
    verdict     \* screener harness: the verdicts check_emergency returned

vars == <<app, session, peer, inflight, request, response, progress, aborted, calls,
          summary, transcript, text, verdict>>

None == "None"

(***************************************************************************)
(* Bounds of the model                                                     *)
(***************************************************************************)
MaxCursor == 8      \* submissions accepted since the last start()
MaxFrags == 3       \* fragments concatenated into a screened text
MaxExchanges == 11  \* chat exchanges since the last clear
MaxPad == 2         \* blanks put before and after a chat message
MaxInFlight == 2    \* overlapping requests of one client
MaxIsoCursor == 2   \* submissions of each of two clients
MaxIsoExchanges == 1  \* chat exchanges of each of two clients

(***************************************************************************)
(* Program constants                                                       *)
(***************************************************************************)
MaxHistory == 20        \* session['messages'][-20:]
MaxMessageLen == 1000   \* len(msg) > 1000
MinMessageLen == 2      \* len(msg.strip()) < 2

(***************************************************************************)
(* Python string primitives                                                *)
(***************************************************************************)
UpperAlphabet == "ABCDEFGHIJKLMNOPQRSTUVWXYZ"
LowerAlphabet == "abcdefghijklmnopqrstuvwxyz"

\* str.lower() on one character
LowerChar(c) ==
    IF \E i \in 1..26 : SubSeq(UpperAlphabet, i, i) = c
    THEN LET i == CHOOSE j \in 1..26 : SubSeq(UpperAlphabet, j, j) = c
         IN  SubSeq(LowerAlphabet, i, i)
    ELSE c

RECURSIVE Lower(_)
\* str.lower()
Lower(s) ==
    IF Len(s) = 0 THEN ""
    ELSE LowerChar(SubSeq(s, 1, 1)) \o Lower(SubSeq(s, 2, Len(s)))

Whitespace == {" ", "\t", "\n"}

RECURSIVE LStrip(_)
LStrip(s) ==
    IF Len(s) > 0 /\ SubSeq(s, 1, 1) \in Whitespace
    THEN LStrip(SubSeq(s, 2, Len(s)))
    ELSE s

RECURSIVE RStrip(_)
RStrip(s) ==
    IF Len(s) > 0 /\ SubSeq(s, Len(s), Len(s)) \in Whitespace
    THEN RStrip(SubSeq(s, 1, Len(s) - 1))
    ELSE s

\* str.strip()
Strip(s) == RStrip(LStrip(s))

\* Python `kw in s` on strings
Contains(kw, s) ==
    \E i \in 0..(Len(s) - Len(kw)) : SubSeq(s, i + 1, i + Len(kw)) = kw

(***************************************************************************)
(* Emergency keyword tables                                                *)
(***************************************************************************)
\* app.py
EMERGENCY_KEYWORDS == <<
    "chest pain", "heart attack", "stroke", "can't breathe", "cannot breathe",
    "difficulty breathing", "severe bleeding", "unconscious", "seizure",
    "suicidal", "suicide", "want to die", "overdose", "poisoning",
    "severe allergic", "anaphylaxis", "choking", "drowning",
    "severe head injury", "loss of consciousness", "paralysis",
    "coughing blood", "vomiting blood", "severe abdominal pain" >>

\* full_symptom_checker_app.py
EMERGENCY_SYMPTOMS == [
    call_911 |-> [
        keywords |-> <<
            "chest pain", "can't breathe", "difficulty breathing", "cant breathe",
            "unconscious", "passed out", "severe bleeding", "bleeding heavily",
            "seizure", "stroke", "heart attack", "choking", "overdose",
            "suicide", "kill myself", "severe allergic reaction" >>,
        message |-> "CALL 911 IMMEDIATELY - This could be a medical emergency!" ],
    urgent_care |-> [
        keywords |-> <<
            "high fever", "severe pain", "persistent vomiting", "vomiting blood",
            "blood in stool", "severe headache", "vision loss", "confused",
            "severe abdominal pain", "deep cut", "broken bone", "can't walk" >>,
        message |-> "URGENT: Seek immediate medical care today" ] ]

RECURSIVE FirstMatchFrom(_, _, _)
\* `for keyword in keywords: if keyword in text_lower: return ...` from index i;
\* the index of the keyword that returns, 0 when the loop falls through
FirstMatchFrom(keywords, text_lower, i) ==
    IF i > Len(keywords) THEN 0
    ELSE IF Contains(keywords[i], text_lower) THEN i
    ELSE FirstMatchFrom(keywords, text_lower, i + 1)

RECURSIVE LastMatchFrom(_, _, _)
LastMatchFrom(keywords, text_lower, i) ==
    IF i < 1 THEN 0
    ELSE IF Contains(keywords[i], text_lower) THEN i
    ELSE LastMatchFrom(keywords, text_lower, i - 1)

\* mutant of check_emergency: scans the keyword list from its end
check_emergency_reversed(t) ==
    LET text_lower == Lower(t)
        k == LastMatchFrom(EMERGENCY_KEYWORDS, text_lower, Len(EMERGENCY_KEYWORDS))
    IN  IF k > 0
        THEN [is_emergency |-> TRUE, keyword |-> EMERGENCY_KEYWORDS[k]]
        ELSE [is_emergency |-> FALSE, keyword |-> None]

\* app.py check_emergency: (is_emergency, keyword)
check_emergency(t) ==
    LET text_lower == Lower(t)
        k == FirstMatchFrom(EMERGENCY_KEYWORDS, text_lower, 1)
    IN  IF k > 0
        THEN [is_emergency |-> TRUE, keyword |-> EMERGENCY_KEYWORDS[k]]
        ELSE [is_emergency |-> FALSE, keyword |-> None]

\* mutant of check_emergency_checker: matches the text without lower-casing it
check_emergency_checker_cased(t) ==
    IF FirstMatchFrom(EMERGENCY_SYMPTOMS.call_911.keywords, t, 1) > 0
    THEN [is_emergency |-> TRUE, level |-> "critical",
          message |-> EMERGENCY_SYMPTOMS.call_911.message]
    ELSE IF FirstMatchFrom(EMERGENCY_SYMPTOMS.urgent_care.keywords, t, 1) > 0
    THEN [is_emergency |-> TRUE, level |-> "urgent",
          message |-> EMERGENCY_SYMPTOMS.urgent_care.message]
    ELSE [is_emergency |-> FALSE, level |-> "routine", message |-> None]

\* mutant of check_emergency_checker: the urgent tier's loop is dropped and
\* every text without a critical keyword is reported urgent
check_emergency_checker_eager(t) ==
    LET text_lower == Lower(t)
    IN  IF FirstMatchFrom(EMERGENCY_SYMPTOMS.call_911.keywords, text_lower, 1) > 0
        THEN [is_emergency |-> TRUE, level |-> "critical",
              message |-> EMERGENCY_SYMPTOMS.call_911.message]
        ELSE [is_emergency |-> TRUE, level |-> "urgent",
              message |-> EMERGENCY_SYMPTOMS.urgent_care.message]

\* full_symptom_checker_app.py check_emergency: {is_emergency, level, message}
check_emergency_checker(t) ==
    LET text_lower == Lower(t)
    IN  IF FirstMatchFrom(EMERGENCY_SYMPTOMS.call_911.keywords, text_lower, 1) > 0
        THEN [is_emergency |-> TRUE, level |-> "critical",
              message |-> EMERGENCY_SYMPTOMS.call_911.message]
        ELSE IF FirstMatchFrom(EMERGENCY_SYMPTOMS.urgent_care.keywords, text_lower, 1) > 0
        THEN [is_emergency |-> TRUE, level |-> "urgent",
              message |-> EMERGENCY_SYMPTOMS.urgent_care.message]
        ELSE [is_emergency |-> FALSE, level |-> "routine", message |-> None]

(***************************************************************************)
(* The screener applied to bounded texts (specification SpecScreen)        *)
(***************************************************************************)
Fragments == { " ", "I have ", "CHEST PAIN", "severe bleeding", "high fever",
               "Vomiting Blood", " disorder", "kill myself", "Poisoning", "headache" }

RECURSIVE TextsOf(_)
\* the concatenations of at most n fragments
TextsOf(n) ==
    IF n = 0 THEN {""}
    ELSE LET shorter == TextsOf(n - 1)
         IN  shorter \cup { t \o f : t \in shorter, f \in Fragments }

Texts == TextsOf(MaxFrags)

NoVerdict == [combined |-> [is_emergency |-> FALSE, keyword |-> None],
              checker |-> [is_emergency |-> FALSE, level |-> None, message |-> None],
              screened |-> FALSE]

(***************************************************************************)
(* Questionnaire                                                           *)
(***************************************************************************)
\* app.py
ASSESSMENT_QUESTIONS == <<
    [id |-> "main_symptom",        type |-> "text",        required |-> TRUE],
    [id |-> "duration",            type |-> "choice",      required |-> TRUE],
    [id |-> "severity",            type |-> "scale",       required |-> TRUE],
    [id |-> "additional_symptoms", type |-> "multiselect", required |-> FALSE],
    [id |-> "age",                 type |-> "number",      required |-> TRUE],
    [id |-> "chronic_conditions",  type |-> "text",        required |-> FALSE],
    [id |-> "medications",         type |-> "text",        required |-> FALSE] >>

\* full_symptom_checker_app.py
SYMPTOM_QUESTIONS == <<
    [id |-> "main_symptom",        type |-> "text",        required |-> TRUE],
    [id |-> "duration",            type |-> "choice",      required |-> TRUE],
    [id |-> "severity",            type |-> "scale",       required |-> TRUE],
    [id |-> "additional_symptoms", type |-> "multiselect", required |-> FALSE],
    [id |-> "age",                 type |-> "number",      required |-> TRUE],
    [id |-> "chronic_conditions",  type |-> "text",        required |-> FALSE],
    [id |-> "medications",         type |-> "text",        required |-> FALSE] >>

\* the questionnaire of the deployed variant
Questions == IF app = "combined" THEN ASSESSMENT_QUESTIONS ELSE SYMPTOM_QUESTIONS

(***************************************************************************)
(* JSON values of a request body                                           *)
(***************************************************************************)
Null == [kind |-> "null", val |-> "None", items |-> << >>]
Str(s) == [kind |-> "str", val |-> s, items |-> << >>]
Num(s) == [kind |-> "int", val |-> s, items |-> << >>]

RECURSIVE Join(_, _)
\* sep.join(parts)
Join(sep, parts) ==
    IF Len(parts) = 0 THEN ""
    ELSE IF Len(parts) = 1 THEN parts[1]
    ELSE parts[1] \o sep \o Join(sep, Tail(parts))

\* a JSON array of strings; val is str(list): ['Fever', 'Cough']
List(items) ==
    [kind |-> "list",
     val |-> "[" \o Join(", ", [i \in 1..Len(items) |-> "'" \o items[i] \o "'"]) \o "]",
     items |-> items]

\* Python truthiness of a JSON value (`if answer`)
Truthy(v) ==
    CASE v.kind = "null" -> FALSE
      [] v.kind = "str"  -> v.val # ""
      [] v.kind = "int"  -> v.val # "0"
      [] v.kind = "list" -> v.val # "[]"

\* the answers a client sends for a question id (None: the id is missing)
AnswerChoices(question_id) ==
    CASE question_id = "main_symptom" ->
             { Null, Str(""), Str("fever"), Str("I have CHEST PAIN"),
               Str("high fever"), Str("Poisoning") }
      [] question_id = "duration" -> { Null, Str("1-3 days ago") }
      [] question_id = "severity" -> { Num("6") }
      [] question_id = "additional_symptoms" -> { List(<<"Fever", "Cough">>) }
      [] question_id = "age" -> { Num("34") }
      [] question_id = "chronic_conditions" -> { Str("asthma"), Str("history of stroke") }
      [] question_id = "medications" -> { Str("aspirin") }
      [] OTHER -> { Str("fever") }

QuestionIds == { ASSESSMENT_QUESTIONS[i].id : i \in 1..Len(ASSESSMENT_QUESTIONS) }

\* the texts (str(answer)) of all answers the modelled client sends
AnswerTexts ==
    { v.val : v \in UNION { AnswerChoices(q) : q \in QuestionIds \cup {None} } }

\* check_emergency of each variant, tabulated over AnswerTexts
CheckedCombined == [t \in AnswerTexts |-> check_emergency(t)]
CheckedChecker == [t \in AnswerTexts |-> check_emergency_checker(t)]

\* a Python dict d with d[k] = v executed
Put(d, k, v) == [x \in (DOMAIN d) \cup {k} |-> IF x = k THEN v ELSE d[x]]

EmptyDict == [x \in {} |-> Null]

(***************************************************************************)
(* Session and messages                                                    *)
(***************************************************************************)
\* session['assessment'] as start_assessment / submit_answer of app.py create it
NewAssessment == [answers |-> EmptyDict, current_question |-> 0, started |-> TRUE]

\* a session without any key; the fields of absent keys hold these defaults
EmptySession == [keys |-> {},
                 messages |-> << >>,
                 assessment |-> NewAssessment,
                 symptom_data |-> EmptyDict,
                 current_question |-> 0,
                 completed |-> FALSE]

\* a request body without an 'answers' entry
NoBody == [given |-> FALSE, answers |-> EmptyDict]

\* the fields of a request; a route reads only its own
NoRequest == [client |-> 1, op |-> "none", question_id |-> None, answer |-> Null,
              msg |-> "", body |-> NoBody]

\* no request of the client is in flight; base is the session the first
\* request of a group of overlapping requests loaded
NoneInFlight == [base |-> EmptySession, reqs |-> << >>]

Resp(code, status, question, keyword, level) ==
    [code |-> code, status |-> status, question |-> question,
     keyword |-> keyword, level |-> level]

NoResponse == Resp(0, None, None, None, None)

(***************************************************************************)
(* app.py: the assessment routes                                           *)
(***************************************************************************)
\* mutant of start_assessment: an existing assessment keeps its answers and
\* only its cursor is rewound
start_assessment_keeping(s) ==
    [session  |-> IF "assessment" \in s.keys
                  THEN [s EXCEPT !.assessment.current_question = 0]
                  ELSE [s EXCEPT !.keys = @ \cup {"assessment"},
                                 !.assessment = NewAssessment],
     response |-> Resp(200, "started", ASSESSMENT_QUESTIONS[1].id, None, None)]

\* POST /start_assessment
start_assessment(s) ==
    [session  |-> [s EXCEPT !.keys = @ \cup {"assessment"},
                            !.assessment = NewAssessment],
     response |-> Resp(200, "started", ASSESSMENT_QUESTIONS[1].id, None, None)]

\* mutant of store_and_advance: answers with the question just answered
store_and_advance_off_by_one(s1, question_id, answer) ==
    LET s2 == [s1 EXCEPT
                 !.assessment.answers = Put(@, question_id, answer),
                 !.assessment.current_question = @ + 1]
        current_idx == s2.assessment.current_question
    IN  IF current_idx >= Len(ASSESSMENT_QUESTIONS)
        THEN [session |-> s2, response |-> Resp(200, "complete", None, None, None)]
        ELSE [session  |-> s2,
              response |-> Resp(200, "continue",
                                ASSESSMENT_QUESTIONS[current_idx].id, None, None)]

\* mutant of store_and_advance: a submission on a finished questionnaire
\* starts over at the first question
store_and_advance_restarting(s1, question_id, answer) ==
    LET s2 == [s1 EXCEPT
                 !.assessment.answers = Put(@, question_id, answer),
                 !.assessment.current_question =
                     IF @ >= Len(ASSESSMENT_QUESTIONS) THEN 0 ELSE @ + 1]
        current_idx == s2.assessment.current_question
    IN  IF current_idx >= Len(ASSESSMENT_QUESTIONS)
        THEN [session |-> s2, response |-> Resp(200, "complete", None, None, None)]
        ELSE [session  |-> s2,
              response |-> Resp(200, "continue",
                                ASSESSMENT_QUESTIONS[current_idx + 1].id, None, None)]

\* the bookkeeping of submit_answer after the emergency check: store, advance,
\* answer with the next question or with "complete"
store_and_advance(s1, question_id, answer) ==
    LET s2 == [s1 EXCEPT
                 !.assessment.answers = Put(@, question_id, answer),
                 !.assessment.current_question = @ + 1]
        current_idx == s2.assessment.current_question
    IN  IF current_idx >= Len(ASSESSMENT_QUESTIONS)
        THEN [session |-> s2, response |-> Resp(200, "complete", None, None, None)]
        ELSE [session  |-> s2,
              response |-> Resp(200, "continue",
                                ASSESSMENT_QUESTIONS[current_idx + 1].id, None, None)]

\* mutant of submit_answer: the answer is stored before the emergency check
submit_answer_store_first(s, question_id, answer) ==
    IF question_id = None
    THEN [session |-> s, response |-> Resp(400, None, None, None, None)]
    ELSE
      LET s1 == IF "assessment" \notin s.keys
                THEN [s EXCEPT !.keys = @ \cup {"assessment"},
                               !.assessment = NewAssessment]
                ELSE s
          stored == store_and_advance(s1, question_id, answer)
          emergency == CheckedCombined[answer.val]
      IN  IF question_id = "main_symptom" /\ Truthy(answer) /\ emergency.is_emergency
          THEN [session  |-> stored.session,
                response |-> Resp(200, "emergency", None, emergency.keyword, None)]
          ELSE stored

\* POST /submit_answer
submit_answer(s, question_id, answer) ==
    IF question_id = None
    THEN [session |-> s, response |-> Resp(400, None, None, None, None)]
    ELSE
      LET s1 == IF "assessment" \notin s.keys
                THEN [s EXCEPT !.keys = @ \cup {"assessment"},
                               !.assessment = NewAssessment]
                ELSE s
          emergency == CheckedCombined[answer.val]
      IN  IF question_id = "main_symptom" /\ Truthy(answer) /\ emergency.is_emergency
          THEN [session  |-> s1,
                response |-> Resp(200, "emergency", None, emergency.keyword, None)]
          ELSE store_and_advance(s1, question_id, answer)

(***************************************************************************)
(* full_symptom_checker_app.py: session helpers and routes                 *)
(***************************************************************************)
init_symptom_session(s) ==
    [s EXCEPT !.keys = @ \cup {"symptom_data", "current_question", "completed"},
              !.symptom_data = EmptyDict,
              !.current_question = 0,
              !.completed = FALSE]

\* the id of the question at session.get('current_question', 0), None past the end
get_current_question(s) ==
    LET question_index == IF "current_question" \in s.keys THEN s.current_question ELSE 0
    IN  IF question_index < Len(SYMPTOM_QUESTIONS)
        THEN SYMPTOM_QUESTIONS[question_index + 1].id
        ELSE None

save_answer(s, question_id, answer) ==
    LET s1 == IF "symptom_data" \notin s.keys
              THEN [s EXCEPT !.keys = @ \cup {"symptom_data"}, !.symptom_data = EmptyDict]
              ELSE s
    IN  [s1 EXCEPT !.symptom_data = Put(@, question_id, answer)]

advance_question(s) ==
    [s EXCEPT !.keys = @ \cup {"current_question"},
              !.current_question =
                  (IF "current_question" \in s.keys THEN s.current_question ELSE 0) + 1]

\* POST /start_assessment
start_assessment_checker(s) ==
    LET s1 == init_symptom_session(s)
    IN  [session  |-> s1,
         response |-> Resp(200, "started", get_current_question(s1), None, None)]

\* mutant of submit_answer_checker: the cursor is advanced twice
submit_answer_checker_skipping(s, question_id, answer) ==
    LET emergency_check == CheckedChecker[answer.val]
    IN  IF answer.kind = "str" /\ emergency_check.is_emergency
        THEN [session  |-> s,
              response |-> Resp(200, "emergency", None, None, emergency_check.level)]
        ELSE
          LET s2 == advance_question(advance_question(save_answer(s, question_id, answer)))
              next_question == get_current_question(s2)
          IN  IF next_question = None
              THEN [session  |-> [s2 EXCEPT !.keys = @ \cup {"completed"},
                                            !.completed = TRUE],
                    response |-> Resp(200, "complete", None, None, None)]
              ELSE [session  |-> s2,
                    response |-> Resp(200, "continue", next_question, None, None)]

\* POST /submit_answer
submit_answer_checker(s, question_id, answer) ==
    LET emergency_check == CheckedChecker[answer.val]
    IN  IF answer.kind = "str" /\ emergency_check.is_emergency
        THEN [session  |-> s,
              response |-> Resp(200, "emergency", None, None, emergency_check.level)]
        ELSE
          LET s2 == advance_question(save_answer(s, question_id, answer))
              next_question == get_current_question(s2)
          IN  IF next_question = None
              THEN [session  |-> [s2 EXCEPT !.keys = @ \cup {"completed"},
                                            !.completed = TRUE],
                    response |-> Resp(200, "complete", None, None, None)]
              ELSE [session  |-> s2,
                    response |-> Resp(200, "continue", next_question, None, None)]

\* POST /reset
reset(s) ==
    [session |-> init_symptom_session(s),
     response |-> Resp(200, "reset", None, None, None)]

(***************************************************************************)
(* app.py: the chat routes                                                 *)
(***************************************************************************)
\* one collaborator call and whether it returned
Call(to, ok) == [to |-> to, ok |-> ok]

Turn(role, content) == [role |-> role, content |-> content]

\* the last n elements of a list: seq[-n:]
LastN(seq, n) ==
    IF Len(seq) <= n THEN seq ELSE SubSeq(seq, Len(seq) - n + 1, Len(seq))

\* mutant of validate_message: the length limits are off by one
validate_message_off_by_one(msg) ==
    IF msg = "" THEN [is_valid |-> FALSE, error |-> "Message cannot be empty"]
    ELSE IF Len(msg) >= MaxMessageLen
    THEN [is_valid |-> FALSE, error |-> "Message too long (max 1000 characters)"]
    ELSE IF Len(Strip(msg)) <= MinMessageLen
    THEN [is_valid |-> FALSE, error |-> "Message too short"]
    ELSE [is_valid |-> TRUE, error |-> None]

validate_message(msg) ==
    IF msg = "" THEN [is_valid |-> FALSE, error |-> "Message cannot be empty"]
    ELSE IF Len(msg) > MaxMessageLen
    THEN [is_valid |-> FALSE, error |-> "Message too long (max 1000 characters)"]
    ELSE IF Len(Strip(msg)) < MinMessageLen
    THEN [is_valid |-> FALSE, error |-> "Message too short"]
    ELSE [is_valid |-> TRUE, error |-> None]

\* get_chat_history: creates session['messages'] when the key is absent
get_chat_history(s) ==
    IF "messages" \notin s.keys
    THEN [s EXCEPT !.keys = @ \cup {"messages"}, !.messages = << >>]
    ELSE s

\* mutant of update_chat_history: the oldest turns are kept
update_chat_history_keep_oldest(s, user_message, bot_message) ==
    LET s1 == get_chat_history(s)
        appended == s1.messages \o << Turn("user", user_message),
                                      Turn("assistant", bot_message) >>
    IN  [s1 EXCEPT !.messages = SubSeq(appended, 1,
                                       IF Len(appended) < MaxHistory
                                       THEN Len(appended) ELSE MaxHistory)]

update_chat_history(s, user_message, bot_message) ==
    LET s1 == get_chat_history(s)
        appended == s1.messages \o << Turn("user", user_message),
                                      Turn("assistant", bot_message) >>
    IN  [s1 EXCEPT !.messages = LastN(appended, MaxHistory)]

\* the calls rag_chain.invoke makes: the history-aware retriever rewrites the
\* question with the chat model when there is history, retrieves, and the
\* question-answer chain generates; a failing call (fail_at) ends the chain
rag_chain_invoke(chat_history, fail_at) ==
    LET stages == IF Len(chat_history) > 0
                  THEN << "generator", "retriever", "generator" >>
                  ELSE << "retriever", "generator" >>
        n == IF fail_at = 0 THEN Len(stages) ELSE fail_at
    IN  [ok    |-> fail_at = 0,
         calls |-> [i \in 1..n |-> Call(stages[i], i # fail_at)]]

\* mutant of chat: the user's turn is recorded before the chain is invoked
chat_recording_first(s, raw, fail_at, answer) ==
    LET msg == Strip(raw)
        valid == validate_message(msg)
    IN  IF ~valid.is_valid
        THEN [session |-> s, response |-> Resp(400, None, None, None, None),
              calls |-> << >>]
        ELSE
          LET s1 == get_chat_history(s)
              chain == rag_chain_invoke(s1.messages, fail_at)
              s2 == [s1 EXCEPT !.messages = LastN(Append(@, Turn("user", msg)), MaxHistory)]
          IN  IF ~chain.ok
              THEN [session |-> s2, response |-> Resp(500, None, None, None, None),
                    calls |-> chain.calls]
              ELSE [session  |-> update_chat_history(s1, msg, answer),
                    response |-> Resp(200, "answer", None, None, None),
                    calls    |-> chain.calls]

\* POST /get and POST /api/chat: the two routes differ in the response body
\* only.  out: [session, response, calls]
chat(s, raw, fail_at, answer) ==
    LET msg == Strip(raw)
        valid == validate_message(msg)
    IN  IF ~valid.is_valid
        THEN [session |-> s, response |-> Resp(400, None, None, None, None),
              calls |-> << >>]
        ELSE
          LET s1 == get_chat_history(s)
              chain == rag_chain_invoke(s1.messages, fail_at)
          IN  IF ~chain.ok
              THEN [session |-> s1, response |-> Resp(500, None, None, None, None),
                    calls |-> chain.calls]
              ELSE [session  |-> update_chat_history(s1, msg, answer),
                    response |-> Resp(200, "answer", None, None, None),
                    calls    |-> chain.calls]

\* POST /clear
clear_conversation(s) ==
    [session  |-> [s EXCEPT !.keys = @ \cup {"messages"}, !.messages = << >>],
     response |-> Resp(200, "success", None, None, None)]

(***************************************************************************)
(* The patient summary                                                     *)
(***************************************************************************)
\* a value formatted into an f-string: {value}
Render(v) == v.val

\* mutant of format_patient_info: the main symptom is put before the age
format_patient_info_reordered(answers) ==
    LET info_parts ==
              (IF "main_symptom" \in DOMAIN answers
               THEN << "Main Symptom: " \o Render(answers["main_symptom"]) >> ELSE << >>)
           \o (IF "age" \in DOMAIN answers
               THEN << "Age: " \o Render(answers["age"]) >> ELSE << >>)
           \o (IF "duration" \in DOMAIN answers
               THEN << "Duration: " \o Render(answers["duration"]) >> ELSE << >>)
           \o (IF "severity" \in DOMAIN answers
               THEN << "Severity: " \o Render(answers["severity"]) \o "/10" >> ELSE << >>)
    IN  Join("\n", info_parts)

\* app.py: format_patient_info
format_patient_info(answers) ==
    LET info_parts ==
              (IF "age" \in DOMAIN answers
               THEN << "Age: " \o Render(answers["age"]) >> ELSE << >>)
           \o (IF "main_symptom" \in DOMAIN answers
               THEN << "Main Symptom: " \o Render(answers["main_symptom"]) >> ELSE << >>)
           \o (IF "duration" \in DOMAIN answers
               THEN << "Duration: " \o Render(answers["duration"]) >> ELSE << >>)
           \o (IF "severity" \in DOMAIN answers
               THEN << "Severity: " \o Render(answers["severity"]) \o "/10" >> ELSE << >>)
           \o (IF "additional_symptoms" \in DOMAIN answers
                  /\ Truthy(answers["additional_symptoms"])
               THEN LET symptoms == answers["additional_symptoms"]
                    IN  IF symptoms.kind = "list"
                        THEN << "Additional Symptoms: " \o Join(", ", symptoms.items) >>
                        ELSE << "Additional Symptoms: " \o Render(symptoms) >>
               ELSE << >>)
           \o (IF "chronic_conditions" \in DOMAIN answers
                  /\ Truthy(answers["chronic_conditions"])
               THEN << "Chronic Conditions: " \o Render(answers["chronic_conditions"]) >>
               ELSE << >>)
           \o (IF "medications" \in DOMAIN answers /\ Truthy(answers["medications"])
               THEN << "Current Medications: " \o Render(answers["medications"]) >>
               ELSE << >>)
    IN  Join("\n", info_parts)

\* the characters of a string: what str.join iterates over when handed a str
Chars(str) == [i \in 1..Len(str) |-> SubSeq(str, i, i)]

\* symptoms_data.get(key, default) formatted into the f-string
GetRendered(symptoms_data, key, default) ==
    IF key \in DOMAIN symptoms_data THEN Render(symptoms_data[key]) ELSE default

\* full_symptom_checker_app.py: the symptom_description of
\* get_differential_diagnosis.  ', '.join raises TypeError on a value that is
\* neither a list nor a string.  out: [ok, text]
symptom_description(symptoms_data) ==
    LET additional == IF "additional_symptoms" \in DOMAIN symptoms_data
                      THEN symptoms_data["additional_symptoms"]
                      ELSE List(<< >>)
        joined == IF additional.kind = "list" THEN Join(", ", additional.items)
                  ELSE Join(", ", Chars(additional.val))
    IN  IF additional.kind \notin {"list", "str"}
        THEN [ok |-> FALSE, text |-> ""]
        ELSE [ok   |-> TRUE,
              text |-> "\nPatient presents with:\n\n"
                       \o "Main Symptom: "
                       \o GetRendered(symptoms_data, "main_symptom", "Not specified")
                       \o "\nDuration: "
                       \o GetRendered(symptoms_data, "duration", "Not specified")
                       \o "\nSeverity: "
                       \o GetRendered(symptoms_data, "severity", "Not specified") \o "/10"
                       \o "\nAdditional Symptoms: " \o joined
                       \o "\nAge: "
                       \o GetRendered(symptoms_data, "age", "Not specified")
                       \o "\nMedical History: "
                       \o GetRendered(symptoms_data, "chronic_conditions", "None reported")
                       \o "\nCurrent Medications: "
                       \o GetRendered(symptoms_data, "medications", "None reported")
                       \o "\n"]

(***************************************************************************)
(* The diagnosis routes                                                    *)
(***************************************************************************)
\* mutant of synthesize: the answer generator is invoked before the retriever
synthesize_generator_first(fail_at) ==
    LET stages == << "generator", "retriever" >>
        n == IF fail_at = 0 THEN Len(stages) ELSE fail_at
    IN  [ok    |-> fail_at = 0,
         calls |-> [i \in 1..n |-> Call(stages[i], i # fail_at)]]

\* mutant of synthesize: a failed retriever call is made a second time
synthesize_retrying(fail_at) ==
    IF fail_at = 1
    THEN [ok    |-> TRUE,
          calls |-> << Call("retriever", FALSE), Call("retriever", TRUE),
                       Call("generator", TRUE) >>]
    ELSE [ok    |-> fail_at = 0,
          calls |-> IF fail_at = 0
                    THEN << Call("retriever", TRUE), Call("generator", TRUE) >>
                    ELSE << Call("retriever", TRUE), Call("generator", FALSE) >>]

\* the collaborator calls of a diagnosis: retriever.invoke, then
\* chatModel.invoke; a call that raises (fail_at) ends the sequence
synthesize(fail_at) ==
    LET stages == << "retriever", "generator" >>
        n == IF fail_at = 0 THEN Len(stages) ELSE fail_at
    IN  [ok    |-> fail_at = 0,
         calls |-> [i \in 1..n |-> Call(stages[i], i # fail_at)]]

\* mutant of get_diagnosis: the assessment is cleared before the collaborators
\* are called
get_diagnosis_clearing_first(s, body, fail_at) ==
    IF ~body.given /\ ~("assessment" \in s.keys /\ s.assessment.answers # EmptyDict)
    THEN [session |-> s, response |-> Resp(400, None, None, None, None),
          calls |-> << >>, summary |-> ""]
    ELSE
      LET answers == IF body.given THEN body.answers ELSE s.assessment.answers
          patient_info == format_patient_info(answers)
          made == synthesize(fail_at)
      IN  IF ~made.ok
          THEN [session |-> [s EXCEPT !.keys = @ \ {"assessment"},
                                      !.assessment = NewAssessment],
                response |-> Resp(500, None, None, None, None),
                calls |-> made.calls, summary |-> patient_info]
          ELSE [session  |-> [s EXCEPT !.keys = @ \ {"assessment"},
                                      !.assessment = NewAssessment],
                response |-> Resp(200, "success", None, None, None),
                calls    |-> made.calls,
                summary  |-> patient_info]

\* app.py: POST /get_diagnosis.  out: [session, response, calls, summary]
get_diagnosis(s, body, fail_at) ==
    IF ~body.given /\ ~("assessment" \in s.keys /\ s.assessment.answers # EmptyDict)
    THEN [session |-> s, response |-> Resp(400, None, None, None, None),
          calls |-> << >>, summary |-> ""]
    ELSE
      LET answers == IF body.given THEN body.answers ELSE s.assessment.answers
          patient_info == format_patient_info(answers)
          made == synthesize(fail_at)
      IN  IF ~made.ok
          THEN [session |-> s, response |-> Resp(500, None, None, None, None),
                calls |-> made.calls, summary |-> patient_info]
          ELSE [session  |-> [s EXCEPT !.keys = @ \ {"assessment"},
                                       !.assessment = NewAssessment],
                response |-> Resp(200, "success", None, None, None),
                calls    |-> made.calls,
                summary  |-> patient_info]

\* full_symptom_checker_app.py: get_differential_diagnosis.
\* out: [ok, calls, summary]
get_differential_diagnosis(symptoms_data, fail_at) ==
    LET description == symptom_description(symptoms_data)
        made == synthesize(fail_at)
    IN  IF ~description.ok
        THEN [ok |-> FALSE, calls |-> << >>, summary |-> ""]
        ELSE [ok |-> made.ok, calls |-> made.calls, summary |-> description.text]

\* full_symptom_checker_app.py: POST /get_diagnosis.  check_emergency raises
\* on a main symptom that is no string, outside the try block: the framework
\* answers 500.  out: [session, response, calls, summary]
get_diagnosis_checker(s, fail_at) ==
    IF ~("completed" \in s.keys /\ s.completed)
    THEN [session |-> s, response |-> Resp(400, None, None, None, None),
          calls |-> << >>, summary |-> ""]
    ELSE
      LET symptom_data == IF "symptom_data" \in s.keys THEN s.symptom_data ELSE EmptyDict
          main_symptom == IF "main_symptom" \in DOMAIN symptom_data
                          THEN symptom_data["main_symptom"] ELSE Str("")
      IN  IF main_symptom.kind # "str"
          THEN [session |-> s, response |-> Resp(500, None, None, None, None),
                calls |-> << >>, summary |-> ""]
          ELSE
            LET emergency_check == CheckedChecker[main_symptom.val]
                diagnosis == get_differential_diagnosis(symptom_data, fail_at)
            IN  IF emergency_check.is_emergency
                THEN [session  |-> s,
                      response |-> Resp(200, "emergency", None, None,
                                        emergency_check.level),
                      calls |-> << >>, summary |-> ""]
                ELSE IF diagnosis.ok
                THEN [session  |-> s,
                      response |-> Resp(200, "success", None, None, None),
                      calls |-> diagnosis.calls, summary |-> diagnosis.summary]
                ELSE [session  |-> s,
                      response |-> Resp(500, "error", None, None, None),
                      calls |-> diagnosis.calls, summary |-> diagnosis.summary]

(***************************************************************************)
(* Views of the session shared by both variants                            *)
(***************************************************************************)
\* the cursor: index of the next question (an absent key reads as 0)
Cursor(s) ==
    IF app = "combined"
    THEN IF "assessment" \in s.keys THEN s.assessment.current_question ELSE 0
    ELSE IF "current_question" \in s.keys THEN s.current_question ELSE 0

\* the recorded answers (an absent key reads as the empty mapping)
Answers(s) ==
    IF app = "combined"
    THEN IF "assessment" \in s.keys THEN s.assessment.answers ELSE EmptyDict
    ELSE IF "symptom_data" \in s.keys THEN s.symptom_data ELSE EmptyDict

\* the keyword lists a variant screens with
KeywordsOf(a) ==
    IF a = "combined" THEN EMERGENCY_KEYWORDS
    ELSE EMERGENCY_SYMPTOMS.call_911.keywords \o EMERGENCY_SYMPTOMS.urgent_care.keywords

\* some keyword of variant a occurs in t, in any letter case
HasKeywordOf(a, t) ==
    \E k \in 1..Len(KeywordsOf(a)) : Contains(KeywordsOf(a)[k], Lower(t))

KeywordTexts == [a \in {"combined", "checker"} |-> { t \in AnswerTexts : HasKeywordOf(a, t) }]

\* the answer text t holds a keyword of the deployed variant
HasKeyword(t) == t \in KeywordTexts[app]

(***************************************************************************)
(* Actions                                                                 *)
(***************************************************************************)
Handle(req, out, prog) ==
    /\ request' = [NoRequest EXCEPT !.op = req.op, !.question_id = req.question_id,
                                    !.answer = req.answer]
    /\ calls' = << >>
    /\ summary' = ""
    /\ UNCHANGED <<transcript, peer, inflight>>
    /\ session' = out.session
    /\ response' = out.response
    /\ progress' = prog
    /\ aborted' = IF req.op \in {"start", "reset"} THEN FALSE
                  ELSE aborted \/ out.response.status = "emergency"
    /\ UNCHANGED <<app, text, verdict>>

StartAssessment ==
    Handle([op |-> "start", question_id |-> None, answer |-> Null],
           IF app = "combined" THEN start_assessment(session)
                               ELSE start_assessment_checker(session),
           0)

\* history: one more in-order emergency-free submission, or off the script (-1)
NextProgress(question_id, answer) ==
    IF /\ progress \in 0..(Len(Questions) - 1)
       /\ question_id = Questions[progress + 1].id
       /\ ~HasKeyword(answer.val)
    THEN progress + 1
    ELSE -1

SubmitAnswer ==
    \E question_id \in QuestionIds \cup {None} :
      \E answer \in AnswerChoices(question_id) :
        /\ Cursor(session) < MaxCursor
        /\ Handle([op |-> "submit", question_id |-> question_id, answer |-> answer],
                  IF app = "combined" THEN submit_answer(session, question_id, answer)
                                      ELSE submit_answer_checker(session, question_id, answer),
                  NextProgress(question_id, answer))

Reset ==
    /\ app = "checker"
    /\ Handle([op |-> "reset", question_id |-> None, answer |-> Null],
              reset(session), -1)

\* the answers of the example request: {age: 34, main_symptom: "fever", severity: 6}
ExampleAnswers ==
    Put(Put(Put(EmptyDict, "age", Num("34")), "main_symptom", Str("fever")),
        "severity", Num("6"))

\* the request bodies of POST /get_diagnosis: without and with 'answers'
Bodies ==
    { NoBody,
      [given |-> TRUE, answers |-> ExampleAnswers],
      [given |-> TRUE,
       answers |-> Put(EmptyDict, "main_symptom", Str("I have CHEST PAIN"))] }

\* one POST /get_diagnosis served
DiagnosisStep(body, fail_at) ==
    LET out == IF app = "combined" THEN get_diagnosis(session, body, fail_at)
                                   ELSE get_diagnosis_checker(session, fail_at)
    IN  /\ request' = [NoRequest EXCEPT !.op = "diagnosis", !.body = body]
        /\ session' = out.session
        /\ response' = out.response
        /\ calls' = out.calls
        /\ summary' = out.summary
        /\ progress' = -1
        /\ UNCHANGED <<app, peer, inflight, aborted, transcript, text, verdict>>

GetDiagnosis ==
    \E body \in Bodies, fail_at \in 0..2 : DiagnosisStep(body, fail_at)

Init ==
    /\ app \in {"combined", "checker"}
    /\ session = EmptySession
    /\ peer = EmptySession
    /\ inflight = NoneInFlight
    /\ request = NoRequest
    /\ response = NoResponse
    /\ progress = -1
    /\ aborted = FALSE
    /\ calls = << >>
    /\ summary = ""
    /\ transcript = << >>
    /\ text = ""
    /\ verdict = NoVerdict

Next == StartAssessment \/ SubmitAnswer \/ GetDiagnosis \/ Reset

Spec == Init /\ [][Next]_vars

(***************************************************************************)
(* The chat of the combined variant (specifications SpecChat, SpecValidate)*)
(***************************************************************************)
RECURSIVE Rep(_, _)
\* the string c * n
Rep(c, n) ==
    IF n = 0 THEN ""
    ELSE LET half == Rep(c, n \div 2)
         IN  IF n % 2 = 0 THEN half \o half ELSE half \o half \o c

Pads == { Rep(" ", n) : n \in 0..MaxPad }

\* message bodies around the two length limits
Cores == { "", "a", "ab", "hi there",
           Rep("x", MaxMessageLen - 2), Rep("x", MaxMessageLen - 1),
           Rep("x", MaxMessageLen), Rep("x", MaxMessageLen + 1) }

\* the raw messages a client posts when validation is examined
RawMessages == { l \o c \o r : l \in Pads, c \in Cores, r \in Pads }

\* the raw messages a client posts in a conversation
ChatMessages == { "", " a ", "hi there", " ok " }

\* the answers of the chat model
ModelAnswers == { "I don't know." }

ChatStep(raw, fail_at, answer) ==
    LET out == chat(session, raw, fail_at, answer)
    IN  /\ request' = [NoRequest EXCEPT !.op = "chat", !.msg = raw]
        /\ session' = out.session
        /\ response' = out.response
        /\ calls' = out.calls
        /\ transcript' = IF out.response.code = 200
                         THEN transcript \o << Turn("user", Strip(raw)),
                                               Turn("assistant", answer) >>
                         ELSE transcript
        /\ summary' = ""
        /\ UNCHANGED <<app, peer, inflight, progress, aborted, text, verdict>>

Chat ==
    /\ Len(transcript) < 2 * MaxExchanges
    /\ \E raw \in ChatMessages, fail_at \in 0..3, answer \in ModelAnswers :
         /\ fail_at <= (IF Len(session.messages) > 0 THEN 3 ELSE 2)
         /\ ChatStep(raw, fail_at, answer)

ClearConversation ==
    LET out == clear_conversation(session)
    IN  /\ request' = [NoRequest EXCEPT !.op = "clear"]
        /\ session' = out.session
        /\ response' = out.response
        /\ calls' = << >>
        /\ transcript' = << >>
        /\ summary' = ""
        /\ UNCHANGED <<app, peer, inflight, progress, aborted, text, verdict>>

InitChat ==
    /\ app = "combined"
    /\ session = EmptySession
    /\ peer = EmptySession
    /\ inflight = NoneInFlight
    /\ request = NoRequest
    /\ response = NoResponse
    /\ progress = -1
    /\ aborted = FALSE
    /\ calls = << >>
    /\ summary = ""
    /\ transcript = << >>
    /\ text = ""
    /\ verdict = NoVerdict

NextChat == Chat \/ ClearConversation

SpecChat == InitChat /\ [][NextChat]_vars

\* one chat request on a fresh session, over the messages around the limits
ChatOnce ==
    /\ request.op = "none"
    /\ \E raw \in RawMessages, fail_at \in 0..2, answer \in ModelAnswers :
         ChatStep(raw, fail_at, answer)

NextValidate == ChatOnce

SpecValidate == InitChat /\ [][NextValidate]_vars

(***************************************************************************)
(* The patient summary as a function of the answers (SpecSummary)          *)
(***************************************************************************)
\* a field left out of a mapping
Absent == [kind |-> "absent", val |-> "", items |-> << >>]

\* the values a field holds in the mappings examined
FieldChoices(field) ==
    CASE field = "age" -> { Absent, Str(""), Num("34") }
      [] field = "main_symptom" -> { Absent, Str(""), Str("fever") }
      [] field = "duration" -> { Absent, Null, Str("1-3 days ago") }
      [] field = "severity" -> { Absent, Num("6") }
      [] field = "additional_symptoms" ->
             { Absent, Null, List(<< >>), List(<<"Fever", "Cough">>), Str("nausea") }
      [] field = "chronic_conditions" -> { Absent, Str(""), Str("asthma") }
      [] field = "medications" -> { Absent, Str("aspirin") }

\* the mapping holding the fields of pick that are not left out
FromPick(pick) == [k \in { q \in DOMAIN pick : pick[q] # Absent } |-> pick[k]]

\* the answers mappings examined: every choice of the seven fields
SummaryInputs ==
    { FromPick([age |-> a, main_symptom |-> m, duration |-> d, severity |-> v,
                additional_symptoms |-> x, chronic_conditions |-> c,
                medications |-> t]) :
        a \in FieldChoices("age"), m \in FieldChoices("main_symptom"),
        d \in FieldChoices("duration"), v \in FieldChoices("severity"),
        x \in FieldChoices("additional_symptoms"),
        c \in FieldChoices("chronic_conditions"),
        t \in FieldChoices("medications") }

\* a session whose assessment is complete and holds the answers d
CompletedWith(a, d) ==
    IF a = "combined"
    THEN [EmptySession EXCEPT
            !.keys = {"assessment"},
            !.assessment = [answers |-> d,
                            current_question |-> Len(ASSESSMENT_QUESTIONS),
                            started |-> TRUE]]
    ELSE [EmptySession EXCEPT
            !.keys = {"symptom_data", "current_question", "completed"},
            !.symptom_data = d,
            !.current_question = Len(SYMPTOM_QUESTIONS),
            !.completed = TRUE]

InitSummary ==
    /\ app \in {"combined", "checker"}
    /\ \E d \in SummaryInputs \ {EmptyDict} : session = CompletedWith(app, d)
    /\ peer = EmptySession
    /\ inflight = NoneInFlight
    /\ request = NoRequest
    /\ response = NoResponse
    /\ progress = -1
    /\ aborted = FALSE
    /\ calls = << >>
    /\ summary = ""
    /\ transcript = << >>
    /\ text = ""
    /\ verdict = NoVerdict

\* one diagnosis of the answers collected: the combined variant is sent them
\* in the request body, the checker reads them from the session
DiagnoseOnce ==
    /\ request.op = "none"
    /\ \E fail_at \in 0..2 :
         DiagnosisStep(IF app = "combined"
                       THEN [given |-> TRUE, answers |-> Answers(session)]
                       ELSE NoBody,
                       fail_at)

NextSummary == DiagnoseOnce

SpecSummary == InitSummary /\ [][NextSummary]_vars

(***************************************************************************)
(* Overlapping submissions of one client (SpecRace)                        *)
(*                                                                         *)
(* A request works on the session it loaded when it arrived and saves it   *)
(* when it returns; the routes take no lock.                               *)
(***************************************************************************)
\* POST /start_assessment and POST /submit_answer of the deployed variant
StartOf(s) ==
    IF app = "combined" THEN start_assessment(s) ELSE start_assessment_checker(s)

SubmitOf(s, question_id, answer) ==
    IF app = "combined" THEN submit_answer(s, question_id, answer)
                        ELSE submit_answer_checker(s, question_id, answer)

\* the submissions the overlapping requests carry
Submissions ==
    { [question_id |-> "main_symptom", answer |-> Str("fever")],
      [question_id |-> "main_symptom", answer |-> Str("I have CHEST PAIN")],
      [question_id |-> "duration", answer |-> Str("1-3 days ago")],
      [question_id |-> "severity", answer |-> Num("6")] }

\* every request received has returned
NoneRunning == \A i \in DOMAIN inflight.reqs : inflight.reqs[i].done

\* POST /start_assessment while no submission is running
RaceStart ==
    /\ NoneRunning
    /\ inflight' = [base |-> StartOf(session).session, reqs |-> << >>]
    /\ request' = [NoRequest EXCEPT !.op = "start"]
    /\ session' = StartOf(session).session
    /\ response' = StartOf(session).response
    /\ calls' = << >>
    /\ summary' = ""
    /\ UNCHANGED <<app, peer, progress, aborted, transcript, text, verdict>>

\* a POST /submit_answer arrives: the request loads the session
Receive ==
    \E sub \in Submissions :
        LET req == [question_id |-> sub.question_id, answer |-> sub.answer,
                    loaded |-> session, done |-> FALSE]
        IN  /\ Cursor(session) < MaxCursor
            /\ IF NoneRunning
               THEN inflight' = [base |-> session, reqs |-> << req >>]
               ELSE /\ Len(inflight.reqs) < MaxInFlight
                    /\ inflight' = [inflight EXCEPT !.reqs = Append(@, req)]
            /\ UNCHANGED <<app, session, peer, request, response, progress, aborted,
                           calls, summary, transcript, text, verdict>>

\* a running POST /submit_answer returns: the handler ran on the session the
\* request loaded, and that session is saved
Finish ==
    \E i \in DOMAIN inflight.reqs :
        LET req == inflight.reqs[i]
            out == SubmitOf(req.loaded, req.question_id, req.answer)
        IN  /\ ~req.done
            /\ inflight' = [inflight EXCEPT !.reqs[i].done = TRUE]
            /\ request' = [NoRequest EXCEPT !.op = "submit",
                                            !.question_id = req.question_id,
                                            !.answer = req.answer]
            /\ session' = out.session
            /\ response' = out.response
            /\ calls' = << >>
            /\ summary' = ""
            /\ progress' = -1
            /\ UNCHANGED <<app, peer, aborted, transcript, text, verdict>>

NextRace == RaceStart \/ Receive \/ Finish

SpecRace == Init /\ [][NextRace]_vars

(***************************************************************************)
(* Two clients (SpecIso)                                                   *)
(***************************************************************************)
Clients == {1, 2}

SessionOf(client) == IF client = 1 THEN session ELSE peer

\* mutant of Serve: the session is one object shared by all clients
Serve_shared(client, req, out, made, patient_summary) ==
    /\ request' = [req EXCEPT !.client = client]
    /\ session' = out.session
    /\ peer' = out.session
    /\ response' = out.response
    /\ calls' = made
    /\ summary' = patient_summary
    /\ UNCHANGED <<app, inflight, progress, aborted, transcript, text, verdict>>

\* one request of a client served: flask's session is the session of the
\* client that sent the request, and the routes keep no other state
Serve(client, req, out, made, patient_summary) ==
    /\ request' = [req EXCEPT !.client = client]
    /\ IF client = 1
       THEN session' = out.session /\ peer' = peer
       ELSE peer' = out.session /\ session' = session
    /\ response' = out.response
    /\ calls' = made
    /\ summary' = patient_summary
    /\ UNCHANGED <<app, inflight, progress, aborted, transcript, text, verdict>>

IsoStart ==
    \E c \in Clients :
        Serve(c, [NoRequest EXCEPT !.op = "start"], StartOf(SessionOf(c)), << >>, "")

IsoSubmit ==
    \E c \in Clients, sub \in Submissions :
        /\ Cursor(SessionOf(c)) < MaxIsoCursor
        /\ Serve(c, [NoRequest EXCEPT !.op = "submit",
                                      !.question_id = sub.question_id,
                                      !.answer = sub.answer],
                 SubmitOf(SessionOf(c), sub.question_id, sub.answer), << >>, "")

IsoDiagnosis ==
    \E c \in Clients, body \in Bodies, fail_at \in 0..1 :
        LET out == IF app = "combined" THEN get_diagnosis(SessionOf(c), body, fail_at)
                                       ELSE get_diagnosis_checker(SessionOf(c), fail_at)
        IN  /\ app = "checker" => body = NoBody
            /\ Serve(c, [NoRequest EXCEPT !.op = "diagnosis", !.body = body],
                     out, out.calls, out.summary)

IsoChat ==
    /\ app = "combined"
    /\ \E c \in Clients, raw \in {"", "hi there"}, fail_at \in 0..1,
          answer \in ModelAnswers :
         LET out == chat(SessionOf(c), raw, fail_at, answer)
         IN  /\ Len(SessionOf(c).messages) < 2 * MaxIsoExchanges
             /\ Serve(c, [NoRequest EXCEPT !.op = "chat", !.msg = raw],
                      out, out.calls, "")

IsoClear ==
    /\ app = "combined"
    /\ \E c \in Clients :
         Serve(c, [NoRequest EXCEPT !.op = "clear"],
               clear_conversation(SessionOf(c)), << >>, "")

IsoReset ==
    /\ app = "checker"
    /\ \E c \in Clients :
         Serve(c, [NoRequest EXCEPT !.op = "reset"], reset(SessionOf(c)), << >>, "")

NextIso == IsoStart \/ IsoSubmit \/ IsoDiagnosis \/ IsoChat \/ IsoClear \/ IsoReset

SpecIso == Init /\ [][NextIso]_vars

(***************************************************************************)
(* The two variants served the same requests (SpecPair)                    *)
(*                                                                         *)
(* session is the session of app.py, peer the session of                   *)
(* full_symptom_checker_app.py; response is the response of app.py.        *)
(***************************************************************************)
\* cursor and answers of a session of variant a
CursorOf(a, s) ==
    IF a = "combined"
    THEN IF "assessment" \in s.keys THEN s.assessment.current_question ELSE 0
    ELSE IF "current_question" \in s.keys THEN s.current_question ELSE 0

AnswersOf(a, s) ==
    IF a = "combined"
    THEN IF "assessment" \in s.keys THEN s.assessment.answers ELSE EmptyDict
    ELSE IF "symptom_data" \in s.keys THEN s.symptom_data ELSE EmptyDict

\* the submissions whose answer holds no keyword of either variant
KeywordFree ==
    { sub \in [question_id : QuestionIds,
               answer : UNION { AnswerChoices(q) : q \in QuestionIds }] :
        /\ sub.answer \in AnswerChoices(sub.question_id)
        /\ sub.answer.val \notin KeywordTexts["combined"] \cup KeywordTexts["checker"] }

PairStep(req, ours, theirs) ==
    /\ request' = req
    /\ session' = ours.session
    /\ peer' = theirs.session
    /\ response' = ours.response
    /\ calls' = << >>
    /\ summary' = ""
    /\ UNCHANGED <<app, inflight, progress, aborted, transcript, text, verdict>>

PairStart ==
    PairStep([NoRequest EXCEPT !.op = "start"],
             start_assessment(session), start_assessment_checker(peer))

PairSubmit ==
    \E sub \in KeywordFree :
        /\ CursorOf("combined", session) < MaxCursor
        /\ PairStep([NoRequest EXCEPT !.op = "submit",
                                      !.question_id = sub.question_id,
                                      !.answer = sub.answer],
                    submit_answer(session, sub.question_id, sub.answer),
                    submit_answer_checker(peer, sub.question_id, sub.answer))

InitPair ==
    /\ app = "combined"
    /\ session = EmptySession
    /\ peer = EmptySession
    /\ inflight = NoneInFlight
    /\ request = NoRequest
    /\ response = NoResponse
    /\ progress = -1
    /\ aborted = FALSE
    /\ calls = << >>
    /\ summary = ""
    /\ transcript = << >>
    /\ text = ""
    /\ verdict = NoVerdict

NextPair == PairStart \/ PairSubmit

SpecPair == InitPair /\ [][NextPair]_vars

(***************************************************************************)
(* The screener harness                                                    *)
(***************************************************************************)
InitScreen ==
    /\ app \in {"combined", "checker"}
    /\ session = EmptySession
    /\ peer = EmptySession
    /\ inflight = NoneInFlight
    /\ request = NoRequest
    /\ response = NoResponse
    /\ progress = -1
    /\ aborted = FALSE
    /\ calls = << >>
    /\ summary = ""
    /\ transcript = << >>
    /\ text \in Texts
    /\ verdict = NoVerdict

Screen ==
    /\ ~verdict.screened
    /\ verdict' = [combined |-> check_emergency(text),
                   checker |-> check_emergency_checker(text),
                   screened |-> TRUE]
    /\ UNCHANGED <<app, session, peer, inflight, request, response, progress, aborted,
                 calls, summary, transcript, text>>

NextScreen == Screen

SpecScreen == InitScreen /\ [][NextScreen]_vars

(***************************************************************************)
(* Properties of the assessment state machine (specification Spec)         *)
(***************************************************************************)
\* the id of the question at the cursor, None past the end of the questionnaire
CurrentQuestionId(s) ==
    IF Cursor(s) < Len(Questions) THEN Questions[Cursor(s) + 1].id ELSE None

\* the question with this id is marked required in the questionnaire
IsRequired(question_id) ==
    \E i \in 1..Len(Questions) : Questions[i].id = question_id /\ Questions[i].required

\* an empty or absent answer
IsEmptyAnswer(answer) == answer = Null \/ answer = Str("")

\* the assessment counts as complete: the cursor is past the last question
\* (combined) or the completed flag is set (checker)
IsComplete(s) ==
    IF app = "combined"
    THEN "assessment" \in s.keys /\ s.assessment.current_question >= Len(ASSESSMENT_QUESTIONS)
    ELSE "completed" \in s.keys /\ s.completed

\* the step leaves the recorded answers and the cursor as they were
AssessmentUnadvanced ==
    /\ Answers(session') = Answers(session)
    /\ Cursor(session') = Cursor(session)

\* C1: after start(), the k-th of k consecutive in-order emergency-free
\* submissions returns "continue" with question k+1 while k < len(questions),
\* and "complete" exactly when k = len(questions).
C1_InOrderRunCompletes ==
    (request.op = "submit" /\ progress >= 1) =>
        /\ response.code = 200
        /\ Cursor(session) = progress
        /\ IF progress = Len(Questions)
           THEN response.status = "complete"
           ELSE /\ response.status = "continue"
                /\ response.question = Questions[progress + 1].id

C1_Witness ==
    /\ request.op = "submit"
    /\ progress = Len(Questions)
    /\ response.status = "complete"
    /\ \A i \in 1..Len(Questions) : Questions[i].id \in DOMAIN Answers(session)

\* C2: a submit for main_symptom whose text holds an emergency keyword of the
\* deployed variant returns status "emergency" and leaves answers and cursor
\* unchanged.
C2_EmergencyLeavesAssessment ==
    [][ ( /\ request'.op = "submit"
          /\ request'.question_id = "main_symptom"
          /\ request'.answer.kind = "str"
          /\ HasKeyword(request'.answer.val) )
        => ( response'.status = "emergency" /\ AssessmentUnadvanced ) ]_vars

C2_Witness ==
    /\ request.op = "submit"
    /\ request.question_id = "main_symptom"
    /\ request.answer = Str("I have CHEST PAIN")
    /\ response.status = "emergency"
    /\ Cursor(session) = 0
    /\ "main_symptom" \notin DOMAIN Answers(session)

\* C6 (as claimed): a submit whose question id is not the id of the question
\* at the cursor is answered 400 and leaves answers and cursor unchanged.
C6_OutOfOrderRejected ==
    [][ ( /\ request'.op = "submit"
          /\ request'.question_id \in QuestionIds
          /\ request'.question_id # CurrentQuestionId(session) )
        => ( response'.code = 400 /\ AssessmentUnadvanced ) ]_vars

\* C7 (as claimed): a submit for the required question at the cursor with an
\* empty or absent answer is answered 400 and nothing is recorded.
C7_RequiredEmptyRejected ==
    [][ ( /\ request'.op = "submit"
          /\ request'.question_id = CurrentQuestionId(session)
          /\ IsRequired(request'.question_id)
          /\ IsEmptyAnswer(request'.answer) )
        => ( response'.code = 400 /\ AssessmentUnadvanced ) ]_vars

\* C8 (as claimed): the cursor equals the number of questions with a recorded
\* answer.
C8_CursorCountsAnswers ==
    Cursor(session) = Cardinality(DOMAIN Answers(session))

C10_EmergencyIsTerminal ==
    [][ ( aborted /\ request'.op = "submit" ) => AssessmentUnadvanced ]_vars

\* C11: whatever the state start() is called in, it leaves the assessment in
\* the initial state (no answers, cursor 0, not complete) and returns the
\* first question, main_symptom.
C11_StartResets ==
    request.op = "start" =>
        /\ Answers(session) = EmptyDict
        /\ Cursor(session) = 0
        /\ ~IsComplete(session)
        /\ CurrentQuestionId(session) = "main_symptom"
        /\ response.code = 200
        /\ response.status = "started"
        /\ response.question = "main_symptom"

C11_Witness ==
    /\ request.op = "start"
    /\ response.status = "started"
    /\ response.question = "main_symptom"
    /\ Cursor(session) = 0

\* the answers mapping the diagnosis request summarised: the checker reads
\* the session whatever the body holds
Diagnosed ==
    IF app = "combined" /\ request.body.given THEN request.body.answers
                                              ELSE Answers(session)

\* C21 (as claimed): the current question is the question at the cursor while
\* the assessment is in progress, and none once it is complete or an
\* emergency verdict was returned.
C21_CurrentQuestionOrNone ==
    IF IsComplete(session) \/ aborted
    THEN CurrentQuestionId(session) = None
    ELSE /\ Cursor(session) < Len(Questions)
         /\ CurrentQuestionId(session) = Questions[Cursor(session) + 1].id

\* C23 (as claimed): a submit for a question other than main_symptom is
\* recorded and advances the cursor by one, whatever its text.
C23_OnlyMainSymptomScreened ==
    [][ ( /\ request'.op = "submit"
          /\ request'.question_id \in QuestionIds \ {"main_symptom"} )
        => ( /\ response'.status # "emergency"
             /\ Cursor(session') = Cursor(session) + 1
             /\ Answers(session') =
                    Put(Answers(session), request'.question_id, request'.answer) ) ]_vars

\* C26 (as claimed): the cursor stays within 0..len(questions), and a submit
\* on a complete assessment neither advances the cursor nor records an answer.
C26_CursorWithinQuestions ==
    [][ /\ Cursor(session') \in 0..Len(Questions)
        /\ (IsComplete(session) /\ request'.op = "submit") => AssessmentUnadvanced ]_vars

\* C28 (as claimed): a complete assessment holds a non-empty answer for every
\* required question.
C28_CompleteHoldsRequired ==
    IsComplete(session) =>
        \A i \in 1..Len(Questions) :
            Questions[i].required =>
                /\ Questions[i].id \in DOMAIN Answers(session)
                /\ ~IsEmptyAnswer(Answers(session)[Questions[i].id])

\* C22 (as claimed): a diagnosis request is served from the answers of its
\* body when it carries them, otherwise from the answers recorded in the
\* session; with neither it is answered 400, no collaborator is called and
\* the session stays as it was.
C22_BodyThenSessionElseRejected ==
    [][ request'.op = "diagnosis" =>
          /\ request'.body.given =>
                 /\ response'.code # 400
                 /\ app = "combined" =>
                        summary' = format_patient_info(request'.body.answers)
          /\ (~request'.body.given /\ Answers(session) # EmptyDict) =>
                 /\ response'.code # 400
                 /\ app = "combined" => summary' = format_patient_info(Answers(session))
          /\ (~request'.body.given /\ Answers(session) = EmptyDict) =>
                 /\ response'.code = 400
                 /\ calls' = << >>
                 /\ session' = session ]_vars

\* C27: a diagnosis request in which a collaborator call failed leaves the
\* session, with the answers and the cursor of its assessment, as it was.
C27_FailedDiagnosisKeepsAssessment ==
    [][ ( /\ request'.op = "diagnosis"
          /\ \E i \in DOMAIN calls' : ~calls'[i].ok )
        => ( session' = session /\ AssessmentUnadvanced ) ]_vars

C27_Witness ==
    /\ request.op = "diagnosis"
    /\ ~request.body.given
    /\ response.code = 500
    /\ calls = << Call("retriever", TRUE), Call("generator", FALSE) >>
    /\ IsComplete(session)
    /\ Answers(session) # EmptyDict

\* C29 (as claimed): a diagnosis request for answers whose main symptom holds
\* an emergency keyword calls no collaborator and is answered with an
\* emergency response.
C29_EmergencyShortCircuits ==
    ( /\ request.op = "diagnosis"
      /\ response.code # 400
      /\ "main_symptom" \in DOMAIN Diagnosed
      /\ HasKeyword(Diagnosed["main_symptom"].val) ) =>
        /\ calls = << >>
        /\ response.status = "emergency"

\* the number of calls the last request made to a collaborator
CallsTo(to) == Cardinality({ i \in DOMAIN calls : calls[i].to = to })

\* C18: in a diagnosis request every call of the answer generator follows a
\* retriever call that returned, and a successful request called the
\* generator exactly once.
C18_RetrieverBeforeGenerator ==
    request.op = "diagnosis" =>
        /\ \A j \in DOMAIN calls :
             calls[j].to = "generator" =>
                 \E i \in 1..(j - 1) : calls[i].to = "retriever" /\ calls[i].ok
        /\ response.status = "success" =>
               /\ CallsTo("generator") = 1
               /\ \A i \in DOMAIN calls : calls[i].ok

C18_Witness ==
    /\ request.op = "diagnosis"
    /\ response.status = "success"
    /\ calls = << Call("retriever", TRUE), Call("generator", TRUE) >>

\* C19: a diagnosis request in which a collaborator call failed is answered
\* 500; no collaborator is called twice in one request, and the generator is
\* not called after a failed retriever call.
C19_FailureIsNotRetried ==
    request.op = "diagnosis" =>
        /\ (\E i \in DOMAIN calls : ~calls[i].ok) => response.code = 500
        /\ CallsTo("retriever") <= 1
        /\ CallsTo("generator") <= 1
        /\ \A i, j \in DOMAIN calls :
             (i < j /\ calls[i].to = "retriever" /\ ~calls[i].ok) =>
                 calls[j].to # "generator"

C19_Witness ==
    /\ request.op = "diagnosis"
    /\ calls = << Call("retriever", FALSE) >>
    /\ response.code = 500
    /\ IsComplete(session)

\* C20 (as claimed): after a diagnosis request answered "success" the session
\* holds no assessment entry, neither answers nor cursor; after start or
\* reset it holds the fresh initial assessment only.
C20_AssessmentDestroyed ==
    /\ (request.op = "diagnosis" /\ response.status = "success") =>
           /\ session.keys \cap {"assessment", "symptom_data", "current_question",
                                 "completed"} = {}
           /\ Answers(session) = EmptyDict
           /\ Cursor(session) = 0
    /\ request.op \in {"start", "reset"} =>
           /\ Answers(session) = EmptyDict
           /\ Cursor(session) = 0
           /\ ~IsComplete(session)

(***************************************************************************)
(* Properties of concurrent requests (specifications SpecRace, SpecIso)    *)
(***************************************************************************)
RECURSIVE Serial(_, _)
\* the session after the submissions reqs served one after another on s
Serial(s, reqs) ==
    IF Len(reqs) = 0 THEN s
    ELSE Serial(SubmitOf(s, reqs[1].question_id, reqs[1].answer).session, Tail(reqs))

\* C14 (as claimed): when overlapping submissions have all returned, answers
\* and cursor are those of the same submissions served one after another in
\* some order.
C14_OverlapIsSerializable ==
    (Len(inflight.reqs) >= 2 /\ NoneRunning) =>
        \E order \in Permutations(DOMAIN inflight.reqs) :
            LET serial == Serial(inflight.base,
                                 [i \in DOMAIN inflight.reqs |-> inflight.reqs[order[i]]])
            IN  /\ Answers(session) = Answers(serial)
                /\ Cursor(session) = Cursor(serial)

InSync ==
    /\ AnswersOf("combined", session) = AnswersOf("checker", peer)
    /\ CursorOf("combined", session) = CursorOf("checker", peer)

\* C25: served the same start and keyword-free submit requests, the two
\* variants answer every request with the same status and the same next
\* question id, and hold the same answers and cursor afterwards.
C25_VariantsInLockStep ==
    [][ LET theirs == IF request'.op = "start"
                      THEN start_assessment_checker(peer)
                      ELSE submit_answer_checker(peer, request'.question_id,
                                                 request'.answer)
        IN  InSync =>
              /\ response'.status \in {"started", "continue", "complete"}
              /\ response'.status = theirs.response.status
              /\ response'.question = theirs.response.question
              /\ InSync' ]_vars

C25_Witness ==
    /\ request.op = "submit"
    /\ response.status = "complete"
    /\ CursorOf("combined", session) = Len(ASSESSMENT_QUESTIONS)
    /\ CursorOf("checker", peer) = Len(SYMPTOM_QUESTIONS)
    /\ peer.completed
    /\ AnswersOf("combined", session) = AnswersOf("checker", peer)
    /\ DOMAIN AnswersOf("checker", peer) = QuestionIds

(***************************************************************************)
(* Properties of the chat (specifications SpecChat, SpecValidate)          *)
(***************************************************************************)
\* C12: after n successful exchanges since the last clear the history is the
\* last min(2n, 20) turns of the conversation, oldest first, and never holds
\* more than 20 turns.
C12_HistoryIsLastTwenty ==
    LET kept == Len(session.messages)
        all == Len(transcript)
    IN  /\ kept <= 20
        /\ kept = IF all <= 20 THEN all ELSE 20
        /\ \A i \in 1..kept : session.messages[i] = transcript[all - kept + i]

C12_Witness ==
    /\ Len(transcript) = 22
    /\ Len(session.messages) = 20
    /\ session.messages[1] = transcript[3]
    /\ session.messages[20] = transcript[22]
    /\ transcript[1] # transcript[3]

\* C13 (as claimed): a question is rejected when it is empty, when the raw
\* question exceeds 1000 characters, or when it is shorter than 2 characters
\* after trimming; one of 2 to 1000 characters after trimming is accepted.
C13_RawLengthRejected ==
    request.op = "chat" =>
        /\ ( \/ request.msg = ""
              \/ Len(request.msg) > 1000
              \/ Len(Strip(request.msg)) < 2 ) => response.code = 400
        /\ ( Len(Strip(request.msg)) >= 2 /\ Len(Strip(request.msg)) <= 1000 ) =>
               response.code # 400

\* C13 (amended): all three limits are measured after trimming: a question is
\* rejected with 400 exactly when, trimmed, it is empty, longer than 1000
\* characters or shorter than 2; every other question reaches the pipeline.
C13_TrimmedLengthValidated ==
    request.op = "chat" =>
        LET trimmed == Strip(request.msg)
        IN  /\ response.code = 400 <=> (Len(trimmed) < 2 \/ Len(trimmed) > 1000)
            /\ response.code = 400 => calls = << >>
            /\ response.code # 400 => (response.code \in {200, 500} /\ calls # << >>)

C13_Witness ==
    /\ request.op = "chat"
    /\ Len(request.msg) = 1001
    /\ Len(Strip(request.msg)) = 1000
    /\ response.code = 200

(***************************************************************************)
(* Properties of the patient summary (specification SpecSummary)           *)
(***************************************************************************)
\* the positions of the line breaks of a string
Breaks(str) == { i \in 1..Len(str) : SubSeq(str, i, i) = "\n" }

\* str.split("\n"); the empty summary has no line
LinesOf(str) ==
    IF str = "" THEN << >>
    ELSE
      LET ends == Breaks(str) \cup { Len(str) + 1 }
          starts == {1} \cup { i + 1 : i \in Breaks(str) }
          Nth(k) == CHOOSE st \in starts : Cardinality({ x \in starts : x < st }) = k - 1
          EndOf(st) == CHOOSE e \in ends :
                           e >= st /\ \A e2 \in ends : e2 >= st => e <= e2
      IN  [k \in 1..Cardinality(starts) |-> SubSeq(str, Nth(k), EndOf(Nth(k)) - 1)]

StartsWith(str, prefix) ==
    Len(str) >= Len(prefix) /\ SubSeq(str, 1, Len(prefix)) = prefix

\* the seven fields of the summary in their fixed order, and the label each
\* variant writes in front of the field
SummaryFields ==
    << "age", "main_symptom", "duration", "severity", "additional_symptoms",
       "chronic_conditions", "medications" >>

Labels(a) ==
    IF a = "combined"
    THEN << "Age: ", "Main Symptom: ", "Duration: ", "Severity: ",
            "Additional Symptoms: ", "Chronic Conditions: ", "Current Medications: " >>
    ELSE << "Age: ", "Main Symptom: ", "Duration: ", "Severity: ",
            "Additional Symptoms: ", "Medical History: ", "Current Medications: " >>

\* the place in the fixed order of the field a line is about, 0 for other lines
RankOf(a, line) ==
    IF \E k \in 1..Len(SummaryFields) : StartsWith(line, Labels(a)[k])
    THEN CHOOSE k \in 1..Len(SummaryFields) : StartsWith(line, Labels(a)[k])
    ELSE 0

\* an absent-like value: null, the empty string, the empty list
IsEmptyValue(v) == IsEmptyAnswer(v) \/ (v.kind = "list" /\ v.items = << >>)

\* C16: the patient summary of the combined variant is a function of the
\* answers mapping: every line is about one of the seven fields, the lines
\* follow the fixed order Age, Main Symptom, Duration, Severity, Additional
\* Symptoms, Chronic Conditions, Medications, only fields present in the
\* mapping have a line, and a second call on the mapping gives the same text.
C16_SummaryInFixedOrder ==
    ( /\ app = "combined"
      /\ request.op = "diagnosis"
      /\ request.body.given
      /\ response.code # 400 ) =>
        LET lines == LinesOf(summary)
            rank == [i \in DOMAIN lines |-> RankOf(app, lines[i])]
        IN  /\ \A i \in DOMAIN lines :
                  /\ rank[i] \in 1..Len(SummaryFields)
                  /\ SummaryFields[rank[i]] \in DOMAIN Diagnosed
            /\ \A i, j \in DOMAIN lines : i < j => rank[i] < rank[j]
            /\ summary = format_patient_info(Diagnosed)

C16_Witness ==
    /\ app = "combined"
    /\ request.op = "diagnosis"
    /\ request.body.given
    /\ summary = "Age: 34\nMain Symptom: fever\nSeverity: 6/10\n"
                 \o "Additional Symptoms: Fever, Cough\nChronic Conditions: asthma\n"
                 \o "Current Medications: aspirin"
    /\ "duration" \notin DOMAIN Diagnosed
    /\ Diagnosed["additional_symptoms"] = List(<<"Fever", "Cough">>)

\* C17 (as claimed): a line for a field appears in the patient summary only
\* if the answers mapping holds a non-empty value for the field.
C17_EmptyFieldsOmitted ==
    ( /\ request.op = "diagnosis"
      /\ app = "combined" => request.body.given
      /\ response.code # 400 ) =>
        LET lines == LinesOf(summary)
        IN  \A i \in DOMAIN lines :
              LET k == RankOf(app, lines[i])
              IN  k # 0 => /\ SummaryFields[k] \in DOMAIN Diagnosed
                           /\ ~IsEmptyValue(Diagnosed[SummaryFields[k]])

\* C24: the chat history changes only by a chat request answered 200 or by a
\* clear; a chat request that is rejected (400) or whose chain fails (500)
\* leaves the history as it was, and a rejected one calls no collaborator.
C24_HistoryChangesOnlyOnSuccess ==
    [][ /\ (request'.op = "chat" /\ response'.code # 200) =>
               session'.messages = session.messages
        /\ (request'.op = "chat" /\ response'.code = 400) =>
               (calls' = << >> /\ session' = session)
        /\ session'.messages # session.messages =>
               \/ request'.op = "chat" /\ response'.code = 200
               \/ request'.op = "clear" ]_vars

C24_Witness ==
    /\ request.op = "chat"
    /\ response.code = 500
    /\ \E i \in DOMAIN calls : ~calls[i].ok
    /\ Len(session.messages) = 4
    /\ session.messages = transcript

(***************************************************************************)
(* Properties of the screener (specification SpecScreen)                   *)
(***************************************************************************)
\* some keyword of the list occurs as a substring of the lower-cased text
AnyOccurs(keywords, lowered) ==
    \E k \in 1..Len(keywords) : Contains(keywords[k], lowered)

\* C3: a text holding a critical-tier keyword, in any letter case and with
\* any surrounding text, is an emergency of level critical (checker); a text
\* holding a keyword of the single-tier list is an emergency (combined).
C3_CriticalKeywordIsCritical ==
    verdict.screened =>
        LET lowered == Lower(text)
        IN  /\ AnyOccurs(EMERGENCY_SYMPTOMS.call_911.keywords, lowered) =>
                   (verdict.checker.is_emergency /\ verdict.checker.level = "critical")
            /\ AnyOccurs(EMERGENCY_KEYWORDS, lowered) => verdict.combined.is_emergency

C3_Witness ==
    /\ verdict.screened
    /\ text = "I have CHEST PAIN disorder"
    /\ verdict.checker.level = "critical"
    /\ verdict.combined.is_emergency

\* C4: a text holding no keyword of either tier, the empty and the blank
\* text included, is no emergency: level routine, no keyword reported.
C4_NoKeywordNoEmergency ==
    verdict.screened =>
        LET lowered == Lower(text)
        IN  /\ ( ~AnyOccurs(EMERGENCY_SYMPTOMS.call_911.keywords, lowered)
                 /\ ~AnyOccurs(EMERGENCY_SYMPTOMS.urgent_care.keywords, lowered) ) =>
                   /\ ~verdict.checker.is_emergency
                   /\ verdict.checker.level = "routine"
                   /\ verdict.checker.message = None
            /\ ~AnyOccurs(EMERGENCY_KEYWORDS, lowered) =>
                   (~verdict.combined.is_emergency /\ verdict.combined.keyword = None)

C4_Witness ==
    /\ verdict.screened
    /\ text \in {"", " ", "  ", "I have headache"}
    /\ ~verdict.checker.is_emergency
    /\ ~verdict.combined.is_emergency

\* C5: the critical tier wins over the urgent tier, an urgent keyword alone
\* gives level urgent, and the keyword reported is the first keyword of the
\* list, in list order, that occurs in the lower-cased text.
C5_FirstMatchInPriorityOrder ==
    verdict.screened =>
        LET lowered == Lower(text)
        IN  /\ ( AnyOccurs(EMERGENCY_SYMPTOMS.call_911.keywords, lowered)
                 /\ AnyOccurs(EMERGENCY_SYMPTOMS.urgent_care.keywords, lowered) ) =>
                   verdict.checker.level = "critical"
            /\ ( ~AnyOccurs(EMERGENCY_SYMPTOMS.call_911.keywords, lowered)
                 /\ AnyOccurs(EMERGENCY_SYMPTOMS.urgent_care.keywords, lowered) ) =>
                   verdict.checker.level = "urgent"
            /\ verdict.combined.is_emergency =>
                   \E k \in 1..Len(EMERGENCY_KEYWORDS) :
                       /\ verdict.combined.keyword = EMERGENCY_KEYWORDS[k]
                       /\ Contains(EMERGENCY_KEYWORDS[k], lowered)
                       /\ \A j \in 1..(k - 1) : ~Contains(EMERGENCY_KEYWORDS[j], lowered)

C5_Witness ==
    /\ verdict.screened
    /\ text = "Vomiting Bloodhigh feverCHEST PAIN"
    /\ verdict.checker.level = "critical"
    /\ verdict.combined.keyword = "chest pain"

====
